---- MODULE Spec2Model ----
(***************************************************************************)
(* The blog listing page of src/src/pages/BlogPage.tsx: the BlogPage       *)
(* function component (five useState cells, one useEffect keyed on         *)
(* currentPage) and the ErrorBoundary class component it mounts around the *)
(* list and the pager.                                                     *)
(*                                                                         *)
(* React's part is modelled by its documented contract:                    *)
(*  - state updates made in one synchronous run are applied together, in   *)
(*    call order, by one render;                                           *)
(*  - a useEffect whose dependency changed runs after the render that      *)
(*    changed it was committed (that render is visible first), and always  *)
(*    before the next render is computed;                                  *)
(*  - a component instance lives as long as consecutive renders put the    *)
(*    same component type at its place; its state dies with it.            *)
(* The data source (getPosts), BlogCard and Pagination are collaborators   *)
(* outside the file: getPosts answers any request with any page of posts   *)
(* or a rejection, a rendered descendant of the boundary may throw, and    *)
(* the pager calls onPageChange only while it is rendered.                 *)
(***************************************************************************)
EXTENDS Integers, Sequences, FiniteSets, TLC

VARIABLES
    posts,          \* useState<NotionPost[]>([]): sequence of post ids
    currentPage,    \* useState(1)
    totalPages,     \* useState(0)
    isLoading,      \* useState(true)
    error,          \* useState<string | null>(null)
    hasError,       \* ErrorBoundary.state.hasError of the mounted instance
    caught,         \* what the mounted boundary's componentDidCatch logged
    effectPending,  \* the effect of the last committed currentPage has not run
    inflight,       \* getPosts promises that have not settled
    issued,         \* number of getPosts calls made so far
    lastResponse    \* the settlement handled most recently

vars == <<posts, currentPage, totalPages, isLoading, error, hasError, caught,
          effectPending, inflight, issued, lastResponse>>

\* ---------------------------------------------------------------- bounds
MaxPosts == 2       \* posts per response, and number of distinct post ids
MaxTotal == 2       \* largest totalPages a response carries
MaxPage == 2        \* largest page number the pager asks for
MaxRequests == 3    \* getPosts calls in one run

\* ------------------------------------------------------------- constants
POSTS_PER_PAGE == 9

Null == "null"
FetchErrorMessage == "Failed to load blog posts. Please try again later."
NoResponse == [id |-> 0, ok |-> TRUE, posts |-> <<>>, totalPages |-> 0]
NoFault == [kind |-> "none", index |-> 0]

\* ------------------------------------------------------- the data source
\* A page of posts: post ids in source order, each id at most once.
PostLists ==
    UNION { { s \in [1..n -> 1..MaxPosts] :
                \A i, j \in 1..n : i # j => s[i] # s[j] } : n \in 0..MaxPosts }

Totals == 0..MaxTotal
Pages == 1..MaxPage

\* The call getPosts(currentPage, POSTS_PER_PAGE) as a pending promise.
Request(page) == [id |-> issued + 1, page |-> page, pageSize |-> POSTS_PER_PAGE]

\* ----------------------------------------------------------- render rule
\* JavaScript truthiness of `error` (string | null).
Truthy(e) == e # Null /\ e # ""

StatusOf(l, e) == IF l THEN "Loading" ELSE IF Truthy(e) THEN "Error" ELSE "Ready"
Status == StatusOf(isLoading, error)

\* The ternary of the render mounts <ErrorBoundary> in its last branch only.
BoundaryMountedIn(l, e) == ~l /\ ~Truthy(e)
BoundaryMounted == BoundaryMountedIn(isLoading, error)

\* What the page shows is a set of elements [kind, index]; index is the
\* position in posts of a card and 0 for every other element.
Element(k, i) == [kind |-> k, index |-> i]

\* BoundaryChildren with the pager shown only next to a non-empty list.
BoundaryChildrenPagerNeedsItems ==
    IF Len(posts) > 0
      THEN { Element("card", i) : i \in 1..Len(posts) }
             \cup (IF totalPages > 1 THEN { Element("pager", 0) } ELSE {})
      ELSE { Element("empty", 0) }

\* The children BlogPage passes to <ErrorBoundary>: one BlogCard per post, or
\* the "No Blog Posts Found" message, and the Pagination when totalPages > 1.
BoundaryChildren ==
    (IF Len(posts) > 0
       THEN { Element("card", i) : i \in 1..Len(posts) }
       ELSE { Element("empty", 0) })
    \cup (IF totalPages > 1 THEN { Element("pager", 0) } ELSE {})

\* BoundaryRender as one boundary per child would do it: only the child that
\* threw is replaced by the fallback.
BoundaryRenderPerChild(children) ==
    IF hasError
      THEN (children \ { Element(caught.kind, caught.index) })
             \cup { Element("fallback", 0) }
      ELSE children

\* ErrorBoundary.render: the fallback when tripped, else its children.
BoundaryRender(children) ==
    IF hasError THEN { Element("fallback", 0) } ELSE children

\* View with the pager kept next to the error message.
ViewPagerInErrorView ==
    IF isLoading THEN { Element("loader", 0) }
    ELSE IF Truthy(error)
      THEN { Element("error", 0) }
             \cup (IF totalPages > 1 THEN { Element("pager", 0) } ELSE {})
    ELSE BoundaryRender(BoundaryChildren)

\* The ternary of BlogPage's render, below the page header.
View ==
    IF isLoading THEN { Element("loader", 0) }
    ELSE IF Truthy(error) THEN { Element("error", 0) }
    ELSE BoundaryRender(BoundaryChildren)

\* Indices of the posts whose <BlogCard> is rendered.
CardsRendered == { el.index : el \in { x \in View : x.kind = "card" } }
PagerRendered == Element("pager", 0) \in View
FallbackShown == Element("fallback", 0) \in View
LoaderShown == Element("loader", 0) \in View
ErrorViewShown == Element("error", 0) \in View

\* ---------------------------------------------------------------- state
TypeOK ==
    /\ posts \in PostLists
    /\ currentPage \in Pages
    /\ totalPages \in Totals
    /\ isLoading \in BOOLEAN
    /\ error \in {Null, FetchErrorMessage}
    /\ hasError \in BOOLEAN
    /\ caught.kind \in {"none", "card", "pager"}
    /\ effectPending \in BOOLEAN
    /\ issued \in 0..MaxRequests
    /\ \A r \in inflight : r.id \in 1..issued /\ r.page \in Pages

Init ==
    /\ posts = <<>>
    /\ currentPage = 1
    /\ totalPages = 0
    /\ isLoading = TRUE
    /\ error = Null
    /\ hasError = FALSE
    /\ caught = NoFault
    /\ effectPending = TRUE
    /\ inflight = {}
    /\ issued = 0
    /\ lastResponse = NoResponse

\* BoundaryAfter with the boundary remounted by every render (as a key that
\* changes on each render would do).
BoundaryAfterRemount(l, e) ==
    /\ hasError' = FALSE
    /\ caught' = NoFault

\* The boundary instance after a render with isLoading = l and error = e:
\* kept (with its state) if it was mounted and still is, a fresh one or none
\* otherwise.
BoundaryAfter(l, e) ==
    LET kept == BoundaryMounted /\ BoundaryMountedIn(l, e)
    IN  /\ hasError' = (kept /\ hasError)
        /\ caught' = IF kept THEN caught ELSE NoFault

\* Commit with the effect also resetting the page count, setTotalPages(0),
\* when it enters Loading.
CommitResetsTotal(p, c, t, l, e, settled, changed) ==
    /\ posts' = IF effectPending THEN <<>> ELSE p
    /\ currentPage' = c
    /\ totalPages' = IF effectPending THEN 0 ELSE t
    /\ isLoading' = (effectPending \/ l)
    /\ error' = IF effectPending THEN Null ELSE e
    /\ inflight' = (inflight \ settled)
                     \cup (IF effectPending THEN {Request(currentPage)} ELSE {})
    /\ issued' = issued + (IF effectPending THEN 1 ELSE 0)
    /\ effectPending' = changed
    /\ BoundaryAfter(effectPending \/ l, IF effectPending THEN Null ELSE e)

\* Commit with the effect's setPosts([]) left out.
CommitKeepsPosts(p, c, t, l, e, settled, changed) ==
    /\ posts' = p
    /\ currentPage' = c
    /\ totalPages' = t
    /\ isLoading' = (effectPending \/ l)
    /\ error' = IF effectPending THEN Null ELSE e
    /\ inflight' = (inflight \ settled)
                     \cup (IF effectPending THEN {Request(currentPage)} ELSE {})
    /\ issued' = issued + (IF effectPending THEN 1 ELSE 0)
    /\ effectPending' = changed
    /\ BoundaryAfter(effectPending \/ l, IF effectPending THEN Null ELSE e)

\* One render. The updates a handler queued give posts p, currentPage c,
\* totalPages t, isLoading l and error e. A pending effect runs before the
\* render is computed: the synchronous head of fetchPosts, with the
\* currentPage of the render that scheduled it, queues setIsLoading(true),
\* setPosts([]), setError(null) behind the handler's updates and calls
\* getPosts. `settled` are the promises the handler consumed and `changed`
\* tells whether the render changes the effect's dependency.
Commit(p, c, t, l, e, settled, changed) ==
    /\ posts' = IF effectPending THEN <<>> ELSE p
    /\ currentPage' = c
    /\ totalPages' = t
    /\ isLoading' = (effectPending \/ l)
    /\ error' = IF effectPending THEN Null ELSE e
    /\ inflight' = (inflight \ settled)
                     \cup (IF effectPending THEN {Request(currentPage)} ELSE {})
    /\ issued' = issued + (IF effectPending THEN 1 ELSE 0)
    /\ effectPending' = changed
    /\ BoundaryAfter(effectPending \/ l, IF effectPending THEN Null ELSE e)

\* RunEffect held back while an earlier request is in flight.
RunEffectWhenIdle ==
    /\ effectPending
    /\ inflight = {}
    /\ issued < MaxRequests
    /\ Commit(posts, currentPage, totalPages, isLoading, error, {}, FALSE)
    /\ UNCHANGED lastResponse

\* The effect of the committed currentPage runs on its own.
RunEffect ==
    /\ effectPending
    /\ issued < MaxRequests
    /\ Commit(posts, currentPage, totalPages, isLoading, error, {}, FALSE)
    /\ UNCHANGED lastResponse

\* Resolve with setTotalPages(total) left out.
ResolveWithoutTotal(r, newPosts, total) ==
    /\ r \in inflight
    /\ Commit(newPosts, currentPage, totalPages, FALSE, error, {r}, FALSE)
    /\ lastResponse' = [id |-> r.id, ok |-> TRUE, posts |-> newPosts,
                        totalPages |-> total]

\* The await of request r resolves: setPosts(newPosts); setTotalPages(total);
\* finally setIsLoading(false).
Resolve(r, newPosts, total) ==
    /\ r \in inflight
    /\ Commit(newPosts, currentPage, total, FALSE, error, {r}, FALSE)
    /\ lastResponse' = [id |-> r.id, ok |-> TRUE, posts |-> newPosts,
                        totalPages |-> total]

\* Reject without the finally block: isLoading is left as it was.
RejectWithoutFinally(r) ==
    /\ r \in inflight
    /\ Commit(posts, currentPage, totalPages, isLoading, FetchErrorMessage,
              {r}, FALSE)
    /\ lastResponse' = [id |-> r.id, ok |-> FALSE, posts |-> <<>>,
                        totalPages |-> 0]

\* Reject followed by a retry: the catch calls getPosts again.
RejectRetries(r) ==
    /\ r \in inflight
    /\ issued < MaxRequests
    /\ posts' = posts
    /\ currentPage' = currentPage
    /\ totalPages' = totalPages
    /\ isLoading' = TRUE
    /\ error' = Null
    /\ inflight' = (inflight \ {r}) \cup {Request(currentPage)}
    /\ issued' = issued + 1
    /\ effectPending' = FALSE
    /\ BoundaryAfter(TRUE, Null)
    /\ lastResponse' = [id |-> r.id, ok |-> FALSE, posts |-> <<>>,
                        totalPages |-> 0]

\* The await of request r rejects: catch setError(<fixed string>); finally
\* setIsLoading(false).
Reject(r) ==
    /\ r \in inflight
    /\ Commit(posts, currentPage, totalPages, FALSE, FetchErrorMessage, {r}, FALSE)
    /\ lastResponse' = [id |-> r.id, ok |-> FALSE, posts |-> <<>>,
                        totalPages |-> 0]

\* PageChange with the pager placed outside the boundary: it can be used
\* whenever the Ready view has several pages, tripped boundary or not.
PageChangePagerOutsideBoundary(p) ==
    /\ BoundaryMounted /\ totalPages > 1
    /\ IF p = currentPage
         THEN UNCHANGED vars
         ELSE /\ issued + (IF effectPending THEN 1 ELSE 0) < MaxRequests
              /\ Commit(posts, p, totalPages, isLoading, error, {}, TRUE)
              /\ UNCHANGED lastResponse

\* PageChange without the bail-out of setCurrentPage for an equal value: the
\* effect is scheduled again for the page that is already current.
PageChangeNoBailout(p) ==
    /\ PagerRendered
    /\ issued + (IF effectPending THEN 1 ELSE 0) < MaxRequests
    /\ Commit(posts, p, totalPages, isLoading, error, {}, TRUE)
    /\ UNCHANGED lastResponse

\* The rendered pager calls onPageChange(p), which is setCurrentPage: a
\* no-op for the value currentPage already has, else a render with the new
\* page that schedules the effect.
PageChange(p) ==
    /\ PagerRendered
    /\ IF p = currentPage
         THEN UNCHANGED vars
         ELSE /\ issued + (IF effectPending THEN 1 ELSE 0) < MaxRequests
              /\ Commit(posts, p, totalPages, isLoading, error, {}, TRUE)
              /\ UNCHANGED lastResponse

\* Descendants of the boundary that are rendered and may throw.
Throwers == { el \in View : el.kind \in {"card", "pager"} }

\* RenderFault with the fault also reaching the controller's error state.
RenderFaultReachesController(src) ==
    /\ src \in Throwers
    /\ hasError' = TRUE
    /\ caught' = src
    /\ error' = FetchErrorMessage
    /\ UNCHANGED <<posts, currentPage, totalPages, isLoading,
                   effectPending, inflight, issued, lastResponse>>

\* A descendant throws while rendering: getDerivedStateFromError returns
\* {hasError: true} and componentDidCatch logs the error.
RenderFault(src) ==
    /\ src \in Throwers
    /\ hasError' = TRUE
    /\ caught' = src
    /\ UNCHANGED <<posts, currentPage, totalPages, isLoading, error,
                   effectPending, inflight, issued, lastResponse>>

Next ==
    \/ RunEffect
    \/ \E r \in inflight, newPosts \in PostLists, total \in Totals :
          Resolve(r, newPosts, total)
    \/ \E r \in inflight : Reject(r)
    \/ \E p \in Pages : PageChange(p)
    \/ \E src \in Throwers : RenderFault(src)

Spec == Init /\ [][Next]_vars

\* The promise of the i-th getPosts call settles, one way or the other.
Settle(i) ==
    \E r \in inflight :
        /\ r.id = i
        /\ \/ Reject(r)
           \/ \E newPosts \in PostLists, total \in Totals :
                 Resolve(r, newPosts, total)

\* Some pending promise settles.
SettleAny == \E i \in 1..MaxRequests : Settle(i)

\* The scheduler runs every scheduled effect, and pending requests do not
\* stay pending forever: while one is pending, one of them settles in the
\* end (which holds when every request issued resolves or rejects).
FairSpec ==
    /\ Spec
    /\ WF_vars(RunEffect)
    /\ WF_vars(SettleAny)

\* ------------------------------------------------------------ step kinds
\* This step handles the settlement of a request (lastResponse' is it).
SettledNow == \E r \in inflight : r \notin inflight'
ResolvedNow == SettledNow /\ lastResponse'.ok
RejectedNow == SettledNow /\ ~lastResponse'.ok
\* This step calls getPosts.
IssuedNow == issued' = issued + 1
\* This step is a descendant of the boundary throwing.
FaultNow == ~hasError /\ hasError' /\ BoundaryMounted

\* ---------------------------------------------------------------- claims

\* C1: when a request resolves with N posts and page count T, the state right
\* after the resolution has items = the N posts in source order,
\* totalPages = T and status = Ready, also when the cycle overlaps another
\* request. Stated for a resolution handled while no effect is pending, the
\* plain run of the continuation of fetchPosts.
C1_ResolveGivesReady ==
    [][ (ResolvedNow /\ ~effectPending) =>
          /\ posts' = lastResponse'.posts
          /\ totalPages' = lastResponse'.totalPages
          /\ StatusOf(isLoading', error') = "Ready"
          /\ ~isLoading' /\ ~Truthy(error') ]_vars

\* C2: when a request rejects, the state right after the rejection has items
\* empty, status = Error and the fixed error message, and the view shows no
\* card and no pager, also when the cycle overlaps another request. Stated
\* for a rejection handled while no effect is pending.
C2_RejectGivesEmptyError ==
    [][ (RejectedNow /\ ~effectPending) =>
          /\ posts' = <<>>
          /\ StatusOf(isLoading', error') = "Error"
          /\ error' = FetchErrorMessage
          /\ CardsRendered' = {}
          /\ ~PagerRendered' ]_vars

\* C3: in every reachable state items is non-empty only if status = Ready.
C3_ItemsOnlyWhenReady == Len(posts) > 0 => Status = "Ready"

\* C7: once no request is in flight, the page state is exactly what the
\* request that settled last would produce alone: Ready with its posts and
\* page count if it resolved, Error with empty items if it rejected.
C7_LastSettledWins ==
    (inflight = {} /\ lastResponse # NoResponse) =>
        IF lastResponse.ok
          THEN /\ posts = lastResponse.posts
               /\ totalPages = lastResponse.totalPages
               /\ Status = "Ready"
               /\ error = Null
          ELSE /\ posts = <<>>
               /\ Status = "Error"
               /\ error = FetchErrorMessage

\* C4 as claimed: when the renderer of one displayed item throws, only that
\* item is replaced by the fallback; every other item and the pager (when
\* totalPages > 1) are still rendered.
C4_OnlyFaultyItemReplaced ==
    [][ (FaultNow /\ caught'.kind = "card") =>
          /\ CardsRendered' = CardsRendered \ {caught'.index}
          /\ (totalPages' > 1 => PagerRendered') ]_vars

\* C4 amended: when the renderer of one displayed item throws, the whole
\* subtree the boundary wraps is replaced by the fallback view: no card and
\* no pager is rendered any more, and nothing else of the page state changes.
C4_WholeSubtreeReplaced ==
    [][ (FaultNow /\ caught'.kind = "card") =>
          /\ View' = { Element("fallback", 0) }
          /\ CardsRendered' = {}
          /\ ~PagerRendered'
          /\ UNCHANGED <<posts, currentPage, totalPages, isLoading, error>> ]_vars

\* A card of a two-item list with a pager threw.
C4_Witness ==
    /\ hasError /\ caught.kind = "card"
    /\ Len(posts) = 2 /\ totalPages > 1 /\ Status = "Ready"

\* C5 as claimed: the pager is rendered iff status = Ready and
\* totalPages > 1, tripped boundary or not.
C5_PagerIffReadyAndPages ==
    PagerRendered <=> (Status = "Ready" /\ totalPages > 1)

\* C5 amended: the pager is rendered iff status = Ready, totalPages > 1 and
\* the boundary is not tripped, whether items is empty or not.
C5_PagerIffReadyPagesUntripped ==
    PagerRendered <=> (Status = "Ready" /\ totalPages > 1 /\ ~hasError)

\* Ready with several pages and a tripped boundary, and an empty list.
C5_Witness ==
    /\ Status = "Ready" /\ totalPages > 1 /\ hasError /\ Len(posts) = 0

\* C6 as claimed: the first state in which a new currentPage is visible has
\* status = Loading, items empty and no error message.
C6_LoadingWithNewPage ==
    [][ currentPage' # currentPage =>
          /\ StatusOf(isLoading', error') = "Loading"
          /\ posts' = <<>>
          /\ error' = Null ]_vars

\* C6 amended: status becomes Loading synchronously with the request: the
\* state right after getPosts(p, 9) is called for the committed page p has
\* status = Loading, items empty and no error message; on mount this is so
\* from the first state on.
C6_LoadingWithRequest ==
    [][ /\ issued = 0 =>
            (Status = "Loading" /\ posts = <<>> /\ error = Null /\ currentPage = 1)
        /\ IssuedNow =>
            /\ \E r \in inflight' \ inflight :
                  r.page = currentPage /\ r.pageSize = POSTS_PER_PAGE
            /\ StatusOf(isLoading', error') = "Loading"
            /\ posts' = <<>>
            /\ error' = Null ]_vars

\* A request for a page other than the first is in flight, after the list
\* had been shown.
C6_Witness ==
    /\ \E r \in inflight : r.page > 1 /\ r.page = currentPage
    /\ Status = "Loading" /\ lastResponse.ok /\ Len(lastResponse.posts) > 0

\* C8: within the lifetime of a boundary instance hasError is monotone: false
\* when the instance is mounted, true once a descendant threw, and kept by
\* every later render of the same instance; while true the boundary renders
\* the fallback and not its children.
C8_TrippedStaysTripped ==
    [][ /\ (~BoundaryMounted /\ BoundaryMountedIn(isLoading', error')) => ~hasError'
        /\ (~hasError /\ hasError') => caught' \in Throwers
        /\ (hasError /\ BoundaryMountedIn(isLoading', error')) => hasError'
        /\ hasError' => (View' = { Element("fallback", 0) }) ]_vars

\* A tripped boundary went through the render of a later, shorter response.
C8_Witness ==
    /\ hasError /\ caught.kind = "card" /\ caught.index > Len(posts)

\* C9 as claimed: from every state with status = Error and no request in
\* flight a page change is possible through the page's own controls.
C9_PageChangeFromError ==
    (Status = "Error" /\ inflight = {}) =>
        /\ PagerRendered
        /\ ENABLED (\E p \in Pages : PageChange(p))

\* C9 amended: the Error view offers no control at all: while status = Error
\* the pager is not rendered and no page change can be made, and with no
\* request in flight nothing further happens without a reload.
C9_ErrorViewHasNoControl ==
    Status = "Error" =>
        /\ ~PagerRendered
        /\ View = { Element("error", 0) }
        /\ ~ENABLED (\E p \in Pages : PageChange(p))
        /\ (inflight = {} => ~ENABLED Next)

\* The Error view with several pages known and nothing in flight.
C9_Witness ==
    /\ Status = "Error" /\ inflight = {} /\ totalPages > 1

\* C10: a rejected fetch never trips the boundary and changes only the error
\* message and isLoading; a render fault of a descendant of the boundary
\* sets only hasError, leaves the controller's state alone and stops at the
\* boundary (the page still renders the boundary, showing its fallback).
C10_FaultsDoNotCross ==
    [][ /\ RejectedNow =>
            /\ hasError' => hasError
            /\ caught' \in {caught, NoFault}
            /\ currentPage' = currentPage /\ totalPages' = totalPages
            /\ ~effectPending =>
                  (posts' = posts /\ error' = FetchErrorMessage /\ ~isLoading')
        /\ FaultNow =>
            /\ UNCHANGED <<posts, currentPage, totalPages, isLoading, error,
                           effectPending, inflight, issued, lastResponse>>
            /\ StatusOf(isLoading', error') = "Ready"
            /\ FallbackShown' ]_vars

\* The pager threw on a list that the third or a later request delivered.
C10_Witness ==
    /\ hasError /\ caught.kind = "pager"
    /\ lastResponse.ok /\ lastResponse.id > 2

\* Number of effects scheduled and not yet run (0 or 1).
PendingEffects(b) == IF b THEN 1 ELSE 0

\* C11: nothing holds a second fetch back until the first has settled: a
\* pending effect can always run and call getPosts, a request in flight or
\* not; two requests in flight at once arise only after the mount's request
\* settled and the pager was used twice.
C11_SecondFetchNotPrevented ==
    /\ effectPending => ENABLED RunEffect
    /\ Cardinality(inflight) >= 2 => (issued >= 3 /\ lastResponse # NoResponse)

\* Two requests issued by the controller are in flight at the same time.
C11_Witness == Cardinality(inflight) >= 2

\* C12: in a settled state (nothing in flight, no effect pending) asking
\* again for the page that is current changes nothing: no step from such a
\* state keeps currentPage and changes items, totalPages, status, the error
\* message, or issues a request.
C12_SamePageChangesNothing ==
    [][ (inflight = {} /\ ~effectPending /\ currentPage' = currentPage) =>
          UNCHANGED <<posts, totalPages, isLoading, error, inflight, issued,
                      effectPending>> ]_vars

\* A settled populated view whose pager can call onPageChange(currentPage),
\* on a page reached by a page change.
C12_Witness ==
    /\ PagerRendered /\ inflight = {} /\ ~effectPending
    /\ currentPage > 1 /\ Len(posts) > 0

\* C13: getPosts is called once for the mount and once per change of the
\* value of currentPage, with the committed page and page size 9; a
\* settlement, or onPageChange with the current value, causes no call; a
\* request leaves the set of pending requests only by being settled.
C13_OneRequestPerPageValue ==
    [][ /\ issued + PendingEffects(effectPending) >= 1
        /\ (issued' + PendingEffects(effectPending'))
             - (issued + PendingEffects(effectPending))
           = (IF currentPage' # currentPage THEN 1 ELSE 0)
        /\ issued' \in {issued, issued + 1}
        /\ \A r \in inflight' \ inflight :
              /\ IssuedNow
              /\ r.page = currentPage
              /\ r.pageSize = POSTS_PER_PAGE
        /\ IssuedNow => Cardinality(inflight' \ inflight) = 1
        /\ \A r \in inflight \ inflight' : lastResponse'.id = r.id ]_vars

\* A failed fetch after a page change, with nothing issued since.
C13_Witness ==
    /\ Status = "Error" /\ inflight = {} /\ issued >= 2 /\ currentPage > 1

\* C14: when every request issued settles in the end, every Loading state is
\* followed by a state with status Ready or Error, and status leaves Loading
\* only in a step that handles the settlement of a request.
C14_LoadingEndsSettled ==
    /\ (Status = "Loading") ~> (Status \in {"Ready", "Error"})
    /\ [][ (isLoading /\ ~isLoading') => SettledNow ]_vars

\* The cycle of a page change ended settled, with the list shown.
C14_Witness ==
    /\ Status = "Ready" /\ inflight = {} /\ ~effectPending
    /\ issued >= 2 /\ lastResponse.ok /\ lastResponse.id = issued

C16_TotalChangedOnlyByResolve ==
    [][ /\ (issued = 0 \/ lastResponse = NoResponse) => totalPages = 0
        /\ totalPages' # totalPages =>
              (ResolvedNow /\ totalPages' = lastResponse'.totalPages)
        /\ (RejectedNow \/ FaultNow \/ ~SettledNow) => totalPages' = totalPages
      ]_vars

\* A rejection left the page count of an earlier response in place.
C16_Witness ==
    /\ totalPages > 0 /\ Status = "Error" /\ ~lastResponse.ok /\ posts = <<>>

\* C17: whenever a request is in flight, status = Loading and the view is
\* the loading indicator alone.
C17_LoadingWhileInFlight ==
    inflight # {} =>
        /\ Status = "Loading"
        /\ View = { Element("loader", 0) }

\* C18: a tripped boundary exists only in the Ready view, the boundary is
\* untripped whenever the Ready view is entered, and the view shown after
\* a fetch cycle has completed never has a boundary tripped before.
C18_FaultNeverCarriesOver ==
    [][ /\ hasError => Status = "Ready"
        /\ (Status # "Ready" /\ StatusOf(isLoading', error') = "Ready")
              => ~hasError'
        /\ SettledNow => ~hasError' ]_vars

\* A step of the program that changes the page state (items, currentPage,
\* totalPages, isLoading, error message).
PageStateStep ==
    /\ Next
    /\ <<posts, currentPage, totalPages, isLoading, error>>'
          # <<posts, currentPage, totalPages, isLoading, error>>

\* C19 as claimed, for the states after the mount's request was issued:
\* onPageChange can be invoked only where the pager is rendered, and every
\* state with no request in flight in which the boundary is tripped, or
\* status = Error, or totalPages <= 1 allows no further step of the page
\* state.
C19_TerminalWithoutRequest ==
    /\ ENABLED (\E p \in Pages : PageChange(p)) => PagerRendered
    /\ (issued >= 1 /\ inflight = {}
          /\ (hasError \/ Status = "Error" \/ totalPages <= 1))
         => ~ENABLED PageStateStep

\* C19 amended: onPageChange can be invoked only where the pager is rendered
\* (not loading, no error message, boundary not tripped, totalPages > 1),
\* and every state with no request in flight and no effect still to run in
\* which the boundary is tripped, or status = Error, or totalPages <= 1
\* allows no further step of the page state.
C19_TerminalWhenIdle ==
    /\ ENABLED (\E p \in Pages : PageChange(p)) =>
          /\ PagerRendered
          /\ ~isLoading /\ ~Truthy(error) /\ ~hasError /\ totalPages > 1
    /\ (inflight = {} /\ ~effectPending
          /\ (hasError \/ Status = "Error" \/ totalPages <= 1))
         => ~ENABLED PageStateStep

\* A tripped boundary next to several pages, nothing in flight and no effect
\* to run.
C19_Witness ==
    /\ hasError /\ totalPages > 1 /\ inflight = {} /\ ~effectPending
    /\ issued >= 2
====
